---- MODULE Spec2Model ----
(***************************************************************************)
(* Model of src/lib/index.ts: the f-streams reader and writer built on a   *)
(* tedious connection.                                                     *)
(*                                                                         *)
(* reader(connection, sql, args, opts): rows pushed by the request's 'row' *)
(* listener are buffered in `received` and pulled by the generic reader's  *)
(* read function; stop() cancels the request.                              *)
(* writer(connection, sql, opts): prepare, one execute per written row,    *)
(* unprepare on write(undefined).                                          *)
(*                                                                         *)
(* The tedious connection, its socket and the caller are the environment:  *)
(* they deliver events and make calls in any order the code accepts.       *)
(***************************************************************************)
EXTENDS Integers, Sequences, FiniteSets

(* ---- bounds of the model ---- *)
MaxRows == 4        \* row events the session emits for the reader's request
MaxCalls == 5       \* next()/stop() calls the caller makes on the reader
MaxWCalls == 3      \* write() calls the caller makes on the writer
MaxErrEvents == 2   \* 'errorMessage' events the session emits

(* ---- values ---- *)
null == "null"      \* null / undefined
NoRow == 0          \* `result` argument absent; the i-th row emitted is the record i >= 1
ErrValues == {"E"}  \* errors the session can report

VARIABLES
    \* reader closure state
    error,          \* cached error, or null
    callback,       \* outstanding wait() callback: "none", "next" or "stop"
    stopped,
    done,
    paused,
    received,       \* rows received but not yet read
    request,        \* "live" or null
    optsClose,      \* opts.close is set
    \* reader environment and observation
    hasClose,       \* opts.close was supplied at construction
    arrived,        \* number of 'row' events emitted so far
    completed,      \* the request's completion callback has been invoked
    complErr,       \* the error it carried, or null
    pauseCalls,     \* socket.pause() calls
    resumeCalls,    \* socket.resume() calls
    cancelCalls,    \* connection.cancel() calls
    closeCount,     \* opts.close() invocations
    calls,          \* next()/stop() calls made
    results,        \* what each returned call returned, in order
    \* writer closure state
    wdone,
    wcallback,      \* outstanding wait() callback: "none", "write" or "close"
    isPreparing,
    pendingParamValues, \* queued row, or NoRow
    shouldUnprepare,
    \* writer environment and observation
    errListener,    \* processError is registered on 'errorMessage'
    preparedFired,  \* the 'prepared' event has been emitted
    session,        \* commands given to the connection and not yet completed
    executes,       \* connection.execute() calls
    unprepares,     \* connection.unprepare() calls
    errEvents,      \* 'errorMessage' events emitted
    wcalls,         \* write() calls made
    wresults,       \* what each returned write() call returned, in order
    whung,          \* write() calls that returned from the wait body with no callback stored
    closeDeferred,  \* write(undefined) was called while preparing
    rowWrites,      \* write(row) calls made
    \* construction
    rsetup,         \* reader(): options given, outcome, what it did to the session
    wsetup          \* writer(): arguments given, outcome, what it did to the session

rvars == <<error, callback, stopped, done, paused, received, request, optsClose,
           hasClose, arrived, completed, complErr, pauseCalls, resumeCalls,
           cancelCalls, closeCount, calls, results>>

wvars == <<wdone, wcallback, isPreparing, pendingParamValues, shouldUnprepare,
           errListener, preparedFired, session, executes, unprepares, errEvents,
           wcalls, wresults, whung, closeDeferred, rowWrites>>

svars == <<rsetup, wsetup>>

vars == <<rvars, wvars, svars>>

(***************************************************************************)
(* READER                                                                  *)
(***************************************************************************)
low == 0
high == 2

\* push() pausing whenever the buffer holds at least `high` rows
pushAtLeastHigh(buf, record) ==
    LET nb == Append(buf, record)
    IN [received |-> nb, pause |-> (Len(nb) >= high)]

\* push(record): the new buffer and whether socket.pause() is called
push(buf, record) ==
    LET nb == Append(buf, record)
    IN [received |-> nb, pause |-> (Len(nb) = high)]

\* shift() testing the length against `low` instead of `low + 1`
shiftResumeBelowLow(buf) ==
    [value |-> Head(buf), received |-> Tail(buf), resume |-> (Len(buf) = low)]

\* shift() taking the newest row instead of the oldest
shiftLast(buf) ==
    [value |-> buf[Len(buf)], received |-> SubSeq(buf, 1, Len(buf) - 1),
     resume |-> (Len(buf) = low + 1)]

\* shift(): the returned row, the new buffer and whether socket.resume() is called
shift(buf) ==
    [value |-> Head(buf), received |-> Tail(buf), resume |-> (Len(buf) = low + 1)]

\* the finally block without `opts.close = null`
withCloseFinallyKeepsHook ==
    IF hasClose
    THEN /\ closeCount' = IF optsClose THEN closeCount + 1 ELSE closeCount
         /\ UNCHANGED optsClose
    ELSE UNCHANGED <<closeCount, optsClose>>

\* the finally block of the function withClose returns
withCloseFinally ==
    IF hasClose
    THEN /\ closeCount' = IF optsClose THEN closeCount + 1 ELSE closeCount
         /\ optsClose' = FALSE
    ELSE UNCHANGED <<closeCount, optsClose>>

\* the wait() of a wrapped read/stop function returns: the caller gets the
\* result and the wrapper's finally block runs
Return(op, kind, val) ==
    /\ results' = Append(results, [op |-> op, kind |-> kind, val |-> val])
    /\ withCloseFinally

NoReturn == UNCHANGED <<results, closeCount, optsClose>>

\* cb(null) read by the caller of op
CleanKind(op) == IF op = "stop" THEN "ok" ELSE "eos"

\* send(err, result)
send(err, result) ==
    /\ callback' = "none"
    /\ IF callback # "none"
       THEN /\ IF result # NoRow
               THEN /\ Return(callback, "row", result)
                    /\ UNCHANGED done
               ELSE /\ done' = TRUE
                    /\ Return(callback, CleanKind(callback), NoRow)
            /\ UNCHANGED <<error, received, paused, pauseCalls>>
       ELSE /\ error' = IF error # null THEN error ELSE err
            /\ IF result # NoRow
               THEN LET p == push(received, result)
                    IN /\ received' = p.received
                       /\ paused' = (paused \/ p.pause)
                       /\ pauseCalls' = IF p.pause THEN pauseCalls + 1 ELSE pauseCalls
                       /\ UNCHANGED done
               ELSE /\ done' = TRUE
                    /\ UNCHANGED <<received, paused, pauseCalls>>
            /\ NoReturn

\* the 'row' listener without the `if (stopped) return` test
RowEventIgnoresStopped ==
    /\ request = "live"
    /\ arrived < MaxRows
    /\ arrived' = arrived + 1
    /\ send(null, arrived + 1)
    /\ UNCHANGED <<stopped, request, hasClose, completed, complErr, resumeCalls,
                   cancelCalls, calls>>
    /\ UNCHANGED <<wvars, svars>>

\* request.on('row', ...)
RowEvent ==
    /\ request = "live"
    /\ arrived < MaxRows
    /\ arrived' = arrived + 1
    /\ IF stopped
       THEN UNCHANGED <<error, callback, done, received, paused, pauseCalls,
                        results, closeCount, optsClose>>
       ELSE send(null, arrived + 1)
    /\ UNCHANGED <<stopped, request, hasClose, completed, complErr, resumeCalls,
                   cancelCalls, calls>>
    /\ UNCHANGED <<wvars, svars>>

\* the completion callback given to new tds.Request
RequestComplete(err) ==
    /\ request = "live"
    /\ ~completed
    /\ completed' = TRUE
    /\ complErr' = err
    /\ request' = null
    /\ send(IF stopped THEN null ELSE err, NoRow)
    /\ UNCHANGED <<stopped, hasClose, arrived, resumeCalls, cancelCalls, calls>>
    /\ UNCHANGED <<wvars, svars>>

\* the read function given to devices.generic.reader, called as next()
Read ==
    /\ callback = "none"
    /\ calls < MaxCalls
    /\ calls' = calls + 1
    /\ IF error # null
       THEN /\ request' = null
            /\ Return("next", "err", error)
            /\ UNCHANGED <<callback, received, paused, resumeCalls>>
       ELSE IF Len(received) > 0
       THEN LET s == shift(received)
            IN /\ received' = s.received
               /\ paused' = IF s.resume THEN FALSE ELSE paused
               /\ resumeCalls' = IF s.resume THEN resumeCalls + 1 ELSE resumeCalls
               /\ Return("next", "row", s.value)
               /\ UNCHANGED <<callback, request>>
       ELSE IF done
       THEN /\ request' = null
            /\ Return("next", "eos", NoRow)
            /\ UNCHANGED <<callback, received, paused, resumeCalls>>
       ELSE /\ callback' = "next"
            /\ NoReturn
            /\ UNCHANGED <<request, received, paused, resumeCalls>>
    /\ UNCHANGED <<error, stopped, done, hasClose, arrived, completed, complErr,
                   pauseCalls, cancelCalls>>
    /\ UNCHANGED <<wvars, svars>>

\* stop() without the `if (done)` test
StopIgnoresDone ==
    /\ callback = "none"
    /\ calls < MaxCalls
    /\ calls' = calls + 1
    /\ stopped' = TRUE
    /\ cancelCalls' = cancelCalls + 1
    /\ callback' = "stop"
    /\ NoReturn
    /\ UNCHANGED <<error, done, paused, received, request, hasClose, arrived,
                   completed, complErr, pauseCalls, resumeCalls>>
    /\ UNCHANGED <<wvars, svars>>

\* stop() that cancels and returns at once, without marking the reader stopped
StopNoWait ==
    /\ callback = "none"
    /\ calls < MaxCalls
    /\ calls' = calls + 1
    /\ cancelCalls' = IF done THEN cancelCalls ELSE cancelCalls + 1
    /\ Return("stop", "ok", NoRow)
    /\ UNCHANGED <<stopped, callback>>
    /\ UNCHANGED <<error, done, paused, received, request, hasClose, arrived,
                   completed, complErr, pauseCalls, resumeCalls>>
    /\ UNCHANGED <<wvars, svars>>

\* the stop function given to devices.generic.reader
Stop ==
    /\ callback = "none"
    /\ calls < MaxCalls
    /\ calls' = calls + 1
    /\ IF done
       THEN /\ Return("stop", "ok", NoRow)
            /\ UNCHANGED <<stopped, cancelCalls, callback>>
       ELSE /\ stopped' = TRUE
            /\ cancelCalls' = cancelCalls + 1
            /\ callback' = "stop"
            /\ NoReturn
    /\ UNCHANGED <<error, done, paused, received, request, hasClose, arrived,
                   completed, complErr, pauseCalls, resumeCalls>>
    /\ UNCHANGED <<wvars, svars>>

(***************************************************************************)
(* WRITER                                                                  *)
(***************************************************************************)
\* kinds of argument of write(obj): a row, null (Object.keys throws on it),
\* or undefined (end of stream)
WriteArgs == {"row", "bad", "end"}

\* the wait() of the write function returns to the caller
WReturn(op, err) ==
    wresults' = Append(wresults, [op |-> op, err |-> err])

\* send(err) of the writer
wsend(err) ==
    /\ wcallback' = "none"
    /\ IF wcallback # "none"
       THEN WReturn(wcallback, err)
       ELSE UNCHANGED wresults

\* processError(err), the 'errorMessage' listener; the event is emitted
\* whether or not the listener is still registered
ErrorMessage(err) ==
    /\ errEvents < MaxErrEvents
    /\ errEvents' = errEvents + 1
    /\ IF errListener
       THEN /\ errListener' = FALSE
            /\ wsend(err)
       ELSE UNCHANGED <<errListener, wcallback, wresults>>
    /\ UNCHANGED <<wdone, isPreparing, pendingParamValues, shouldUnprepare,
                   preparedFired, session, executes, unprepares, wcalls, whung,
                   closeDeferred, rowWrites>>
    /\ UNCHANGED <<rvars, svars>>

\* the completion callback without the isPreparing test
WriterRequestCompleteNoSwallow(err) ==
    /\ session # <<>>
    /\ session' = Tail(session)
    /\ wsend(err)
    /\ UNCHANGED <<wdone, isPreparing, pendingParamValues, shouldUnprepare,
                   errListener, preparedFired, executes, unprepares, errEvents,
                   wcalls, whung, closeDeferred, rowWrites>>
    /\ UNCHANGED <<rvars, svars>>

\* the completion callback given to new tds.Request: the session completes
\* the oldest command it was given
WriterRequestComplete(err) ==
    /\ session # <<>>
    /\ session' = Tail(session)
    /\ IF isPreparing
       THEN UNCHANGED <<wcallback, wresults>>
       ELSE wsend(err)
    /\ UNCHANGED <<wdone, isPreparing, pendingParamValues, shouldUnprepare,
                   errListener, preparedFired, executes, unprepares, errEvents,
                   wcalls, whung, closeDeferred, rowWrites>>
    /\ UNCHANGED <<rvars, svars>>

\* request.on('prepared', ...)
Prepared ==
    /\ ~preparedFired
    /\ preparedFired' = TRUE
    /\ isPreparing' = FALSE
    /\ IF shouldUnprepare
       THEN /\ unprepares' = unprepares + 1
            /\ session' = Append(session, "unprepare")
            /\ shouldUnprepare' = FALSE
            /\ UNCHANGED executes
       ELSE IF pendingParamValues # NoRow
       THEN /\ executes' = executes + 1
            /\ session' = Append(session, "execute")
            /\ UNCHANGED <<unprepares, shouldUnprepare>>
       ELSE UNCHANGED <<executes, unprepares, session, shouldUnprepare>>
    /\ UNCHANGED <<wdone, wcallback, pendingParamValues, errListener, errEvents,
                   wcalls, wresults, whung, closeDeferred, rowWrites>>
    /\ UNCHANGED <<rvars, svars>>

\* the end-of-stream branch unpreparing at once, whatever isPreparing is
WriteEndUnprepareNow ==
    /\ wcallback' = "close"
    /\ wdone' = TRUE
    /\ closeDeferred' = isPreparing
    /\ unprepares' = unprepares + 1
    /\ session' = Append(session, "unprepare")
    /\ UNCHANGED shouldUnprepare
    /\ errListener' = FALSE
    /\ UNCHANGED <<pendingParamValues, executes, wresults, whung, rowWrites>>

\* write(undefined): the end-of-stream branch of the write function
WriteEnd ==
    /\ wcallback' = "close"
    /\ wdone' = TRUE
    /\ closeDeferred' = isPreparing
    /\ IF isPreparing
       THEN /\ shouldUnprepare' = TRUE
            /\ UNCHANGED <<unprepares, session>>
       ELSE /\ unprepares' = unprepares + 1
            /\ session' = Append(session, "unprepare")
            /\ UNCHANGED shouldUnprepare
    /\ errListener' = FALSE
    /\ UNCHANGED <<pendingParamValues, executes, wresults, whung, rowWrites>>

\* the try block executing at once, whatever isPreparing is
WriteRowExecuteNow(arg) ==
    /\ rowWrites' = rowWrites + 1
    /\ IF arg = "bad"
       THEN /\ wcallback' = "none"
            /\ WReturn("write", "TypeError")
            /\ UNCHANGED <<pendingParamValues, executes, session>>
       ELSE /\ wcallback' = "write"
            /\ UNCHANGED wresults
            /\ executes' = executes + 1
            /\ session' = Append(session, "execute")
            /\ UNCHANGED pendingParamValues
    /\ UNCHANGED <<wdone, shouldUnprepare, errListener, unprepares, whung, closeDeferred>>

\* write(obj) for a row: the try block of the write function
WriteRow(arg) ==
    /\ rowWrites' = rowWrites + 1
    /\ IF arg = "bad"
       THEN \* Object.keys(null) throws: callback(err); callback = null
            /\ wcallback' = "none"
            /\ WReturn("write", "TypeError")
            /\ UNCHANGED <<pendingParamValues, executes, session>>
       ELSE /\ wcallback' = "write"
            /\ UNCHANGED wresults
            /\ IF isPreparing
               THEN /\ pendingParamValues' = rowWrites + 1
                    /\ UNCHANGED <<executes, session>>
               ELSE /\ executes' = executes + 1
                    /\ session' = Append(session, "execute")
                    /\ UNCHANGED pendingParamValues
    /\ UNCHANGED <<wdone, shouldUnprepare, errListener, unprepares, whung, closeDeferred>>

\* the write function given to devices.generic.writer
Write(arg) ==
    /\ wcallback = "none"
    /\ whung = 0
    /\ wcalls < MaxWCalls
    /\ wcalls' = wcalls + 1
    /\ IF wdone
       THEN \* `if (done) return;` no callback is stored and none is called
            /\ whung' = whung + 1
            /\ UNCHANGED <<wdone, wcallback, pendingParamValues, shouldUnprepare,
                           errListener, session, executes, unprepares, wresults,
                           closeDeferred, rowWrites>>
       ELSE IF arg = "end" THEN WriteEnd ELSE WriteRow(arg)
    /\ UNCHANGED <<isPreparing, preparedFired, errEvents>>
    /\ UNCHANGED <<rvars, svars>>

(***************************************************************************)
(* Initial state: reader and writer just constructed.                      *)
(***************************************************************************)
Init ==
    /\ error = null
    /\ callback = "none"
    /\ stopped = FALSE
    /\ done = FALSE
    /\ paused = FALSE
    /\ received = <<>>
    /\ request = "live"
    /\ hasClose \in BOOLEAN
    /\ optsClose = hasClose
    /\ arrived = 0
    /\ completed = FALSE
    /\ complErr = null
    /\ pauseCalls = 0
    /\ resumeCalls = 0
    /\ cancelCalls = 0
    /\ closeCount = 0
    /\ calls = 0
    /\ results = <<>>
    /\ wdone = FALSE
    /\ wcallback = "none"
    /\ isPreparing = TRUE
    /\ pendingParamValues = NoRow
    /\ shouldUnprepare = FALSE
    /\ errListener = TRUE
    /\ preparedFired = FALSE
    /\ session = <<"prepare">>
    /\ executes = 0
    /\ unprepares = 0
    /\ errEvents = 0
    /\ wcalls = 0
    /\ wresults = <<>>
    /\ whung = 0
    /\ closeDeferred = FALSE
    /\ rowWrites = 0
    /\ rsetup = [state |-> "constructed", fillParameters |-> TRUE,
                 rowListener |-> TRUE, execSql |-> 1]
    /\ wsetup = [state |-> "constructed", connection |-> TRUE, sql |-> TRUE,
                 opts |-> "ok", describeColumns |-> TRUE, preparedListener |-> TRUE]

ReaderNext ==
    \/ RowEvent
    \/ \E err \in ErrValues \cup {null} : RequestComplete(err)
    \/ Read
    \/ Stop

SpecReader == Init /\ [][ReaderNext]_vars

(***************************************************************************)
(* The reader on a transport that honours socket.pause(): between pause()  *)
(* and resume() it delivers neither rows nor the completion event.  The    *)
(* session completes the request (answering a cancel included) as soon as  *)
(* the transport lets it.                                                  *)
(***************************************************************************)
PausingRowEvent == ~paused /\ RowEvent

PausingRequestComplete(err) == ~paused /\ RequestComplete(err)

RequestCompletes == \E err \in ErrValues \cup {null} : PausingRequestComplete(err)

PausingReaderNext ==
    \/ PausingRowEvent
    \/ RequestCompletes
    \/ Read
    \/ Stop

SpecReaderPausing ==
    Init /\ [][PausingReaderNext]_vars /\ WF_vars(RequestCompletes)

WriterNext ==
    \/ \E arg \in WriteArgs : Write(arg)
    \/ Prepared
    \/ \E err \in ErrValues \cup {null} : WriterRequestComplete(err)
    \/ \E err \in ErrValues : ErrorMessage(err)

SpecWriter == Init /\ [][WriterNext]_vars

(***************************************************************************)
(* CONSTRUCTION: reader() and writer() themselves, from the arguments to   *)
(* the returned device or the thrown error.                                *)
(***************************************************************************)
\* opts of writer(): absent, without a describeColumns function, or complete
WriterOpts == {"missing", "noDescribeColumns", "ok"}

\* before reader() and writer() are called
InitSetup ==
    /\ error = null
    /\ callback = "none"
    /\ stopped = FALSE
    /\ done = FALSE
    /\ paused = FALSE
    /\ received = <<>>
    /\ request = null
    /\ hasClose \in BOOLEAN
    /\ optsClose = hasClose
    /\ arrived = 0
    /\ completed = FALSE
    /\ complErr = null
    /\ pauseCalls = 0
    /\ resumeCalls = 0
    /\ cancelCalls = 0
    /\ closeCount = 0
    /\ calls = 0
    /\ results = <<>>
    /\ wdone = FALSE
    /\ wcallback = "none"
    /\ isPreparing = TRUE
    /\ pendingParamValues = NoRow
    /\ shouldUnprepare = FALSE
    /\ errListener = FALSE
    /\ preparedFired = FALSE
    /\ session = <<>>
    /\ executes = 0
    /\ unprepares = 0
    /\ errEvents = 0
    /\ wcalls = 0
    /\ wresults = <<>>
    /\ whung = 0
    /\ closeDeferred = FALSE
    /\ rowWrites = 0
    /\ \E f \in BOOLEAN :
          rsetup = [state |-> "new", fillParameters |-> f,
                    rowListener |-> FALSE, execSql |-> 0]
    /\ \E c \in BOOLEAN, q \in BOOLEAN, o \in WriterOpts :
          wsetup = [state |-> "new", connection |-> c, sql |-> q, opts |-> o,
                    describeColumns |-> FALSE, preparedListener |-> FALSE]

\* reader() testing fillParameters only after connection.execSql
ConstructReaderLateCheck ==
    /\ rsetup.state = "new"
    /\ request' = "live"
    /\ rsetup' = [rsetup EXCEPT !.state = IF rsetup.fillParameters
                                          THEN "constructed" ELSE "threw",
                                !.rowListener = TRUE,
                                !.execSql = 1]
    /\ UNCHANGED <<error, callback, stopped, done, paused, received, optsClose,
                   hasClose, arrived, completed, complErr, pauseCalls,
                   resumeCalls, cancelCalls, closeCount, calls, results>>
    /\ UNCHANGED <<wvars, wsetup>>

\* reader(connection, sql, args, opts)
ConstructReader ==
    /\ rsetup.state = "new"
    /\ request' = "live"
    /\ IF ~rsetup.fillParameters
       THEN rsetup' = [rsetup EXCEPT !.state = "threw"]
       ELSE rsetup' = [rsetup EXCEPT !.state = "constructed",
                                     !.rowListener = TRUE,
                                     !.execSql = 1]
    /\ UNCHANGED <<error, callback, stopped, done, paused, received, optsClose,
                   hasClose, arrived, completed, complErr, pauseCalls,
                   resumeCalls, cancelCalls, closeCount, calls, results>>
    /\ UNCHANGED <<wvars, wsetup>>

\* writer(connection, sql, opts)
ConstructWriter ==
    /\ wsetup.state = "new"
    /\ IF ~wsetup.connection \/ ~wsetup.sql \/ wsetup.opts # "ok"
       THEN /\ wsetup' = [wsetup EXCEPT !.state = "threw"]
            /\ UNCHANGED <<session, errListener>>
       ELSE /\ wsetup' = [wsetup EXCEPT !.state = "constructed",
                                        !.describeColumns = TRUE,
                                        !.preparedListener = TRUE]
            /\ session' = Append(session, "prepare")
            /\ errListener' = TRUE
    /\ UNCHANGED <<wdone, wcallback, isPreparing, pendingParamValues,
                   shouldUnprepare, preparedFired, executes, unprepares,
                   errEvents, wcalls, wresults, whung, closeDeferred, rowWrites>>
    /\ UNCHANGED <<rvars, rsetup>>

SetupNext ==
    \/ ConstructReader
    \/ ConstructWriter

SpecSetup == InitSetup /\ [][SetupNext]_vars

(***************************************************************************)
(* Properties of the reader                                                *)
(***************************************************************************)
RowResults == SelectSeq(results, LAMBDA r : r.kind = "row")
RowValues(rs) == [i \in 1..Len(rs) |-> rs[i].val]
CountKind(k, n) == Cardinality({i \in 1..n : results[i].kind = k})
ArrivalOrder == [i \in 1..arrived |-> i]

\* the case of C1: no cancellation, and the completion event carries no error
NoStopNoError == ~stopped /\ cancelCalls = 0 /\ complErr = null

\* rows returned so far, then the rows still buffered, are the rows in
\* arrival order; an end-of-stream is returned only after the completion
\* event and after every row, and only end-of-stream follows it
RowsThenEnd ==
    /\ RowValues(RowResults) \o received = ArrivalOrder
    /\ \A i \in 1..Len(results) :
          /\ results[i].kind \in {"row", "eos", "ok"}
          /\ results[i].kind = "eos" =>
                /\ completed
                /\ CountKind("row", i) = arrived
                /\ \A j \in i..Len(results) : results[j].kind \in {"eos", "ok"}

\* C1 (as amended): without stop() and without a completion error, successive
\* next() calls return the rows in arrival order, each once, and then
\* end-of-stream; a next() call after end-of-stream returns end-of-stream again.
C1_RowsInOrderThenEnd == NoStopNoError => RowsThenEnd

\* C1 (as stated): ... followed by exactly one end-of-stream result, never repeated.
C1_SingleEnd ==
    NoStopNoError => (RowsThenEnd /\ CountKind("eos", Len(results)) <= 1)

C1_Witness ==
    /\ NoStopNoError
    /\ arrived = 3
    /\ pauseCalls > 0
    /\ [i \in 1..Len(results) |-> results[i].kind] = <<"row", "row", "row", "eos", "eos">>

\* C2: when the completion event carries an error and the reader is not
\* stopped, a next() call fails with the error only after every row received
\* before it has been returned.
C2_RowsBeforeError ==
    ~stopped =>
        \A i \in 1..Len(results) :
            results[i].kind = "err" => CountKind("row", i) = arrived

\* C4: the buffer never holds more than `high` rows.
C4_BufferBound == Len(received) >= 0 /\ Len(received) <= high

Pushed == Len(received') = Len(received) + 1
Removed == Len(received') = Len(received) - 1

\* C5: socket.pause() is called on exactly the steps that push a row and make
\* the buffer hold `high` rows; socket.resume() on exactly the steps that
\* remove a row and leave `low` rows; each step makes at most one such call.
C5_PauseResumeAtWatermarks ==
    [][ /\ pauseCalls' \in {pauseCalls, pauseCalls + 1}
        /\ resumeCalls' \in {resumeCalls, resumeCalls + 1}
        /\ (pauseCalls' = pauseCalls + 1) <=> (Pushed /\ Len(received') = high)
        /\ (resumeCalls' = resumeCalls + 1) <=> (Removed /\ Len(received') = low)
      ]_vars

C5_Witness == pauseCalls = 2 /\ resumeCalls = 1 /\ Len(received) = high

\* C6: when stop() was invoked before the completion event and the completion
\* event carried an error, no call has failed with an error and the stop() call
\* returned cleanly.
C6_StopWinsOverError ==
    (cancelCalls > 0 /\ completed /\ complErr # null) =>
        /\ \A i \in 1..Len(results) : results[i].kind # "err"
        /\ error = null

C6_Witness ==
    /\ stopped /\ completed /\ complErr # null
    /\ \E i \in 1..Len(results) : results[i].op = "stop" /\ results[i].kind = "ok"
    /\ \E i \in 1..Len(results) :
          /\ results[i].op = "next"
          /\ \E j \in 1..(i - 1) : results[j].op = "stop"

\* a next() call returned end-of-stream or an error, or a stop() call returned
Terminated == \E i \in 1..Len(results) : results[i].kind \in {"eos", "err", "ok"}

\* C9: with a release hook supplied, once a call has returned end-of-stream, an
\* error or from stop(), the hook has run exactly once; it never runs twice.
C9_CloseOnce ==
    /\ closeCount <= 1
    /\ (hasClose /\ Terminated) => closeCount = 1

C9_Witness == hasClose /\ Terminated /\ Len(results) >= 3 /\ closeCount = 1

\* C10: the release hook has not run unless a next() call returned
\* end-of-stream or an error, or a stop() call returned.
C10_CloseOnlyAtTermination == closeCount > 0 => Terminated

(***************************************************************************)
(* Properties of the writer                                                *)
(***************************************************************************)
\* C3: no connection.execute() has been issued unless 'prepared' has fired.
C3_NoExecuteBeforePrepared == executes > 0 => preparedFired

\* a write(row) made while preparing was executed by the 'prepared' handler
C3_Witness == executes > 0 /\ pendingParamValues # NoRow /\ preparedFired

\* the case of C7: write(undefined) while preparing, with no write(row) before
ClosedWhilePreparingNoWrites == closeDeferred /\ rowWrites = 0

\* C7: when the writer is closed while preparing with no prior write, no
\* unprepare is issued before 'prepared' fires, exactly one has been issued
\* once it has fired, and no execute is issued.
C7_OneUnprepareAfterPrepared ==
    ClosedWhilePreparingNoWrites =>
        /\ executes = 0
        /\ unprepares = IF preparedFired THEN 1 ELSE 0

C7_Witness ==
    /\ ClosedWhilePreparingNoWrites
    /\ preparedFired
    /\ unprepares = 1
    /\ session = <<>>
    /\ whung > 0

CloseReturned == \E i \in 1..Len(wresults) : wresults[i].op = "close"

\* C8: a write(undefined) made while preparing stays outstanding until
\* 'prepared' has fired: before that it has not returned, whatever completion
\* or errorMessage events arrive.
C8_DeferredCloseWaitsForPrepared ==
    (closeDeferred /\ ~preparedFired) => (wcallback = "close" /\ ~CloseReturned)

\* the close is still outstanding although the prepare completion and an
\* errorMessage event have been delivered before 'prepared'
C8_Witness ==
    /\ closeDeferred /\ ~preparedFired
    /\ session = <<>>
    /\ errEvents > 0
    /\ wcallback = "close"

\* C11: an 'errorMessage' event received before the writer is closed, while a
\* write() call is outstanding, makes that call fail with the error; this holds
\* for every such event, not only the first.
C11_ErrorFailsOutstandingCall ==
    [][ (errEvents' = errEvents + 1 /\ ~wdone /\ wcallback # "none") =>
            /\ wcallback' = "none"
            /\ Len(wresults') = Len(wresults) + 1
            /\ wresults'[Len(wresults')].err \in ErrValues
      ]_vars

(***************************************************************************)
(* Properties of construction                                              *)
(***************************************************************************)
\* a construction with valid arguments ends in the state the reader and the
\* writer start from
SetupReachesInit ==
    (rsetup.state = "constructed" /\ wsetup.state = "constructed") => Init

\* C12: reader() without fillParameters, and writer() without describeColumns,
\* throw; after the throw nothing has been issued to the session (execSql,
\* prepare, execute, unprepare, cancel, pause, resume) and no listener is
\* registered.
C12_MissingBinderThrowsCleanly ==
    /\ (rsetup.state # "new" /\ ~rsetup.fillParameters) =>
          /\ rsetup.state = "threw"
          /\ rsetup.execSql = 0
          /\ ~rsetup.rowListener
          /\ pauseCalls = 0 /\ resumeCalls = 0 /\ cancelCalls = 0
    /\ (wsetup.state # "new" /\ wsetup.opts # "ok") =>
          /\ wsetup.state = "threw"
          /\ session = <<>>
          /\ executes = 0 /\ unprepares = 0
          /\ ~errListener
          /\ ~wsetup.preparedListener
          /\ ~wsetup.describeColumns

\* both constructors threw for the missing binder alone
C12_Witness ==
    /\ rsetup.state = "threw" /\ ~rsetup.fillParameters
    /\ wsetup.state = "threw" /\ wsetup.connection /\ wsetup.sql
    /\ wsetup.opts = "noDescribeColumns"

(***************************************************************************)
(* Further properties of the reader                                        *)
(***************************************************************************)
\* the step is a call of stop(): it returns at once or is stored as outstanding
StopCallStep ==
    /\ calls' = calls + 1
    /\ \/ callback' = "stop"
       \/ /\ Len(results') = Len(results) + 1
          /\ results'[Len(results')].op = "stop"

\* C13: a stop() call made when done is true returns at once without error,
\* issues no cancel, and leaves stopped, the buffer, the cached error and the
\* pause state unchanged.
C13_StopWhenDoneIsNoOp ==
    [][ (done /\ StopCallStep) =>
            /\ results' = Append(results, [op |-> "stop", kind |-> "ok", val |-> NoRow])
            /\ callback' = "none"
            /\ UNCHANGED <<cancelCalls, stopped, received, error, paused,
                           pauseCalls, resumeCalls, done>>
      ]_vars

\* stop() returned although the reader had finished with rows still buffered
\* and the socket paused; nothing was cancelled
C13_Witness ==
    /\ \E i \in 1..Len(results) : results[i].op = "stop" /\ results[i].kind = "ok"
    /\ cancelCalls = 0 /\ ~stopped
    /\ Len(received) = high /\ paused

\* C14: when the completion event carries an error while the reader is not
\* stopped, the buffer is empty and a next() call is outstanding, that call
\* fails with the error.
C14_OutstandingPullGetsError ==
    [][ (~completed /\ completed' /\ complErr' # null
         /\ ~stopped /\ received = <<>> /\ callback = "next") =>
            /\ Len(results') = Len(results) + 1
            /\ results'[Len(results')] = [op |-> "next", kind |-> "err", val |-> complErr']
      ]_vars

\* every row value the caller holds or the buffer holds
RowSet ==
    {received[i] : i \in 1..Len(received)}
        \cup {results[i].val : i \in {j \in 1..Len(results) : results[j].kind = "row"}}

\* C17: once stopped is true, a row event changes neither the buffer nor the
\* outstanding call nor what has been returned, and no row that was not already
\* buffered or returned is ever buffered or returned afterwards.
C17_RowsAfterStopDiscarded ==
    [][ stopped =>
            /\ (arrived' = arrived + 1) => UNCHANGED <<received, callback, results>>
            /\ RowSet' \subseteq RowSet
      ]_vars

\* a row arrived after stop() and is nowhere, and next() calls were made after
\* the stop() returned
C17_Witness ==
    /\ stopped /\ completed
    /\ Cardinality(RowSet) < arrived
    /\ \E i \in 1..Len(results) :
          /\ results[i].op = "stop"
          /\ i < Len(results)

(***************************************************************************)
(* Further properties of the writer                                        *)
(***************************************************************************)
\* C15: the completion firing that confirms the prepare resolves no
\* outstanding write or close call, whether it comes before or after 'prepared'.
C15_PrepareCompletionSwallowed ==
    [][ (session # <<>> /\ Head(session) = "prepare" /\ session' = Tail(session)) =>
            UNCHANGED <<wcallback, wresults>>
      ]_vars

\* C16: once write(undefined) has been requested, an 'errorMessage' event
\* resolves nothing, and the completion event of the unprepare resolves the
\* close call without error, whatever error it carries.
C16_CloseReturnsClean ==
    [][ wdone =>
            /\ (errEvents' = errEvents + 1) => UNCHANGED <<wcallback, wresults>>
            /\ (session # <<>> /\ Head(session) = "unprepare"
                /\ session' = Tail(session) /\ wcallback = "close") =>
                   wresults' = Append(wresults, [op |-> "close", err |-> null])
      ]_vars

(***************************************************************************)
(* Termination                                                             *)
(***************************************************************************)
\* C18: on a transport that honours pause(), an outstanding stop() call can
\* always be resolved: the completion event that answers the cancel can be
\* delivered.
C18_StopCanResolve == (callback = "stop") => ENABLED RequestCompletes

\* the same as a progress property, under weak fairness of the completion
\* event: an outstanding stop() call returns
C18_StopResolves == (callback = "stop") ~> (callback = "none")

\* C19: whenever a next() call is stored as the outstanding callback, the
\* buffer is empty and the reader has not left the socket paused.
C19_PullNeverWaitsPaused == (callback = "next") => (received = <<>> /\ ~paused)

\* a pull is outstanding after the socket has been paused and resumed
C19_Witness ==
    callback = "next" /\ pauseCalls > 0 /\ resumeCalls > 0 /\ ~completed

\* C20: no write() call is left suspended with no callback stored and no
\* command issued.
C20_NoCallLeftSuspended == whung = 0

====
